---- MODULE Spec2Model ----
(***************************************************************************)
(* Model of BlipStaticVoiceGeneration.py (ESP32 droid voice generator).    *)
(*                                                                         *)
(* Four specifications over one set of variables:                          *)
(*   SpecEnc   the 8-bit quantisation of _save_optimized, sample by sample *)
(*   SpecInfl  _add_inflection on waveforms of every length 0..MaxLen      *)
(*   Spec      main(): the batch over the phrase catalog or one phrase     *)
(*   SpecConc  several generate_clip coroutines on one generator           *)
(***************************************************************************)
EXTENDS Integers, Sequences, FiniteSets, TLC

VARIABLES
    audio,               \* _save_optimized: the float samples handed in
    audio_uint8,         \* _save_optimized: the bytes handed to wavfile.write
    encPc,               \* "off" | "ready" | "saved"
    y,                   \* _add_inflection: the input array
    add_end_inflection,  \* the ADD_END_INFLECTION setting of the run
    y_out,               \* _add_inflection: the returned array, as pieces
    inflPc,              \* "off" | "ready" | "done"
    tempFile,            \* ./temp_audio/temp_tts.mp3: [exists, data]
    outFiles,            \* the file at each output path
    calls,               \* the generate_clip coroutines
    mainPc,              \* where main() / generate_all_phrases stands
    category,            \* generate_all_phrases: index of the category
    phraseIdx,           \* generate_all_phrases: i + 1 of enumerate(phrases)
    attempts,            \* the phrases generate_clip was called for, in order
    total_clips          \* generate_all_phrases: total_clips

encVars  == <<audio, audio_uint8, encPc>>
inflVars == <<y, add_end_inflection, y_out, inflPc>>
clipVars == <<tempFile, outFiles, calls>>
pureVars == <<audio, audio_uint8, encPc, y, add_end_inflection, y_out, inflPc>>
mainVars == <<mainPc, category, phraseIdx, attempts, total_clips>>
vars == <<audio, audio_uint8, encPc, y, add_end_inflection, y_out, inflPc,
          tempFile, outFiles, calls, mainPc, category, phraseIdx, attempts,
          total_clips>>

(***************************************************************************)
(* Bounds of the model.                                                    *)
(***************************************************************************)
\* Samples are fixed point: the integer s stands for the float s / SampleScale.
SampleScale == 16
\* Samples range over [-(SampleScale+SampleOver), SampleScale+SampleOver],
\* i.e. beyond [-1.0, 1.0] on both sides.
SampleOver == 8
\* Longest array handed to _save_optimized.
MaxAudioLen == 2
\* Longest array handed to _add_inflection (long enough for every chunk of
\* the tail to exceed 100 samples).
MaxLen == 7000
\* Phrases per category of the catalog.
PhrasesPerCategory == 2
\* Audio messages edge_tts streams for one text (one write to the temporary
\* file each, with an await before each).
NChunks == 2
\* generate_clip coroutines that may be in flight together (SpecConc).
NCalls == 2

(***************************************************************************)
(* Configuration (lines 48-51).                                            *)
(***************************************************************************)
INFLECTION_AMOUNT == 5
\* INFLECTION_DURATION = 0.15, in hundredths.
INFLECTION_DURATION_PCT == 15

(***************************************************************************)
(* _save_optimized, lines 230-231.                                         *)
(***************************************************************************)
Samples == (0 - (SampleScale + SampleOver))..(SampleScale + SampleOver)

\* A mutant of np_clip: the clamp left out.
np_clip_none(s) == s

\* np.clip(audio, -1, 1) on one sample.
np_clip(s) ==
    IF s < 0 - SampleScale THEN 0 - SampleScale
    ELSE IF s > SampleScale THEN SampleScale
    ELSE s

\* Integer part of num/den (den > 0), rounding toward zero.
TruncDiv(num, den) ==
    IF num >= 0 THEN num \div den ELSE 0 - ((0 - num) \div den)

\* .astype(np.uint8) of the float num/den: the fraction is dropped and the
\* integer is kept modulo 2^8.
astype_uint8(num, den) == TruncDiv(num, den) % 256

\* ((audio_clipped + 1) * 127.5).astype(np.uint8) on one sample:
\* (s/Scale + 1) * 127.5 = (s + Scale) * 255 / (2 * Scale).
quantize(s) == astype_uint8((np_clip(s) + SampleScale) * 255, 2 * SampleScale)

save_optimized_bytes(a) == [i \in 1..Len(a) |-> quantize(a[i])]

SeqsUpTo(S, n) == UNION {[1..k -> S] : k \in 0..n}

EncIdle == audio = <<>> /\ audio_uint8 = <<>> /\ encPc = "off"

EncInit ==
    /\ audio \in SeqsUpTo(Samples, MaxAudioLen)
    /\ audio_uint8 = <<>>
    /\ encPc = "ready"

SaveOptimized ==
    /\ encPc = "ready"
    /\ audio_uint8' = save_optimized_bytes(audio)
    /\ encPc' = "saved"
    /\ UNCHANGED <<audio, inflVars, clipVars, mainVars>>

(***************************************************************************)
(* _add_inflection, lines 162-200.                                         *)
(*                                                                         *)
(* An array is a piece [lo, hi, n_steps]: the samples lo..hi of the input  *)
(* buffer (a numpy view; hi < lo is the empty array), with the pitch shift *)
(* applied to them (<<>>: none, <<p, q>>: p/q semitones in lowest terms).  *)
(* np.concatenate yields a sequence of pieces.                             *)
(***************************************************************************)
RECURSIVE GCD(_, _)
GCD(a, b) == IF b = 0 THEN a ELSE GCD(b, a % b)

Rat(num, den) == LET g == GCD(num, den) IN <<num \div g, den \div g>>

Unshifted == <<>>

Array(n) == [lo |-> 1, hi |-> n, n_steps |-> Unshifted]

len(a) == IF a.hi < a.lo THEN 0 ELSE a.hi - a.lo + 1

\* a[start:end] for 0 <= start <= end <= len(a).
Slice(a, start, end) == [lo |-> a.lo + start, hi |-> a.lo + end - 1, n_steps |-> a.n_steps]

\* librosa.effects.pitch_shift(chunk, sr, n_steps): same length, shifted.
pitch_shift(chunk, n_steps) == [chunk EXCEPT !.n_steps = n_steps]

\* Sum of the integers start..end-1.
SumIdx(start, end) == ((start + end - 1) * (end - start)) \div 2

\* A mutant of avg_shift: the envelope value at the chunk's first sample.
avg_shift_at_start(start, end, L) == Rat(INFLECTION_AMOUNT * start, L - 1)

\* bend_envelope[start:end].mean() with
\* bend_envelope = np.linspace(0, INFLECTION_AMOUNT, L), i.e.
\* bend_envelope[k] = INFLECTION_AMOUNT * k / (L - 1): sum over count.
avg_shift(start, end, L) ==
    Rat(INFLECTION_AMOUNT * SumIdx(start, end), (L - 1) * (end - start))

\* A mutant of chunk_end: the last chunk is cut like the others.
chunk_end_equal(i, chunk_size, L) == i * chunk_size + chunk_size

\* end = start + chunk_size if i < 9 else len(end_part)
chunk_end(i, chunk_size, L) ==
    IF i < 9 THEN i * chunk_size + chunk_size ELSE L

\* A mutant of tail_too_short: the guard compares with 10.
tail_too_short_10(inflection_samples) == inflection_samples < 10

\* if inflection_samples < 100: return y
tail_too_short(inflection_samples) == inflection_samples < 100

\* if len(chunk) > 100
shift_chunk(chunk) == len(chunk) > 100

\* One pass of the loop body, lines 185-196.
processed_chunk(end_part, i) ==
    LET L == len(end_part)
        chunk_size == L \div 10
        start == i * chunk_size
        end == chunk_end(i, chunk_size, L)
        chunk == Slice(end_part, start, end)
    IN  IF shift_chunk(chunk)
        THEN pitch_shift(chunk, avg_shift(start, end, L))
        ELSE chunk

add_inflection(a, enabled) ==
    IF ~enabled THEN <<a>>
    ELSE LET inflection_samples == (len(a) * INFLECTION_DURATION_PCT) \div 100 IN
         IF tail_too_short(inflection_samples) THEN <<a>>
         ELSE LET main_part == Slice(a, 0, len(a) - inflection_samples)
                  end_part == Slice(a, len(a) - inflection_samples, len(a))
              IN  <<main_part>> \o [k \in 1..10 |-> processed_chunk(end_part, k - 1)]

InflIdle == y = Array(0) /\ add_end_inflection = TRUE /\ y_out = <<>> /\ inflPc = "off"

InflInit ==
    /\ y \in {Array(n) : n \in 0..MaxLen}
    /\ add_end_inflection \in BOOLEAN
    /\ y_out = <<>>
    /\ inflPc = "ready"

AddInflection ==
    /\ inflPc = "ready"
    /\ y_out' = add_inflection(y, add_end_inflection)
    /\ inflPc' = "done"
    /\ UNCHANGED <<y, add_end_inflection, encVars, clipVars, mainVars>>

(***************************************************************************)
(* The phrase catalog, lines 55-138, cut to its first two categories with  *)
(* PhrasesPerCategory phrases each. A phrase's text is <<category, i>>.    *)
(***************************************************************************)
CategoryNames == <<"happy", "annoyed">>

PHRASES ==
    [c \in 1..Len(CategoryNames) |->
        [i \in 1..PhrasesPerCategory |-> <<CategoryNames[c], i>>]]

\* The catalog in the order of the two nested loops, lines 267-272.
RECURSIVE CatalogFrom(_)
CatalogFrom(c) ==
    IF c > Len(PHRASES) THEN <<>>
    ELSE [i \in 1..Len(PHRASES[c]) |-> <<c, i>>] \o CatalogFrom(c + 1)

CatalogOrder == CatalogFrom(1)

\* The text given on the command line, line 303.
ArgvText == <<"custom", 0>>

\* output_path of phrase i of category c, lines 273-274, of the command
\* line's text, line 306, and of concurrent call k.
PhrasePath(c, i) == <<CategoryNames[c], i>>
CustomPath == <<"custom", 0>>
CallPath(k) == <<"call", k>>

CallIds == 1..NCalls

Paths ==
    {PhrasePath(c, i) : c \in 1..Len(CategoryNames), i \in 1..PhrasesPerCategory}
        \cup {CustomPath} \cup {CallPath(k) : k \in CallIds}

(***************************************************************************)
(* The temporary file and edge_tts's Communicate.save, lines 152-160.      *)
(*                                                                         *)
(* save opens the file "wb" (creating or truncating it) and then writes    *)
(* each audio message as it arrives, awaiting the stream between writes.   *)
(* The file's data is a sequence of chunks <<text, k>>: message k of the   *)
(* speech synthesized for text.                                            *)
(***************************************************************************)
Absent == [exists |-> FALSE, data |-> <<>>]

\* A file left in ./temp_audio by an earlier run (mkdir(exist_ok=True)).
StaleChunk == <<<<"stale", 0>>, 1>>
Hole == <<<<"hole", 0>>, 0>>

\* The speech of text as the provider streams it.
Audio(text) == [k \in 1..NChunks |-> <<text, k>>]

open_wb(file) == [exists |-> TRUE, data |-> <<>>]

\* A write of chunk at offset pos through a handle on the file (a hole is
\* left when the file was truncated under the handle).
write_at(data, pos, chunk) ==
    [k \in 1..(IF Len(data) > pos THEN Len(data) ELSE pos + 1) |->
        IF k = pos + 1 THEN chunk
        ELSE IF k <= Len(data) THEN data[k] ELSE Hole]

\* audio.write(message["data"]) by call c: into the file at the temporary
\* path if c's handle is still on it, into an unlinked file otherwise.
write_chunk(file, call) ==
    IF call.live
    THEN [file EXCEPT !.data = write_at(@, call.pos, <<call.text, call.pos + 1>>)]
    ELSE file

(***************************************************************************)
(* _apply_robot_effects, lines 202-226, and _save_optimized, 228-232, on   *)
(* a waveform [src, stages]: the data it was decoded from and the stages   *)
(* it went through.                                                        *)
(***************************************************************************)
\* librosa.load(input_path): the decoded output of the TTS stage.
librosa_load(file) == [src |-> file.data, stages |-> <<"synthesize">>]

Stage(w, name) == [w EXCEPT !.stages = Append(@, name)]

fx_time_stretch(w) == Stage(w, "time_stretch")
fx_pitch_shift(w) == Stage(w, "pitch_shift")
fx_add_inflection(w) == Stage(w, "add_inflection")
fx_resample(w) == Stage(w, "resample")
fx_normalize(w) == Stage(w, "normalize")

\* A mutant of apply_robot_effects: normalize before resample.
apply_robot_effects_swapped(file) ==
    fx_resample(fx_normalize(fx_add_inflection(fx_pitch_shift(
        fx_time_stretch(librosa_load(file))))))

apply_robot_effects(file) ==
    fx_normalize(fx_resample(fx_add_inflection(fx_pitch_shift(
        fx_time_stretch(librosa_load(file))))))

\* librosa.load raises when the path is missing or holds no data.
Loadable(file) == file.exists /\ file.data # <<>>

NoOutput == [state |-> "absent", src |-> <<>>, stages |-> <<>>]

\* wavfile.write of the quantized audio, complete.
save_optimized(w) == [state |-> "clip", src |-> w.src, stages |-> Append(w.stages, "encode")]

\* wavfile.write raising after it opened output_path "wb".
save_optimized_partial(w) == [state |-> "partial", src |-> w.src, stages |-> Append(w.stages, "encode")]

(***************************************************************************)
(* generate_clip, lines 238-258.                                           *)
(***************************************************************************)
IdleCall ==
    [pc |-> "idle", text |-> <<"none", 0>>, out |-> CustomPath, pos |-> 0,
     live |-> FALSE, found |-> FALSE, loaded |-> <<>>, result |-> "none"]

\* A mutant of stop_after_tts: the result of _generate_raw_tts is ignored.
stop_after_tts_never(ok) == FALSE

\* if not await self._generate_raw_tts(text, temp_path): return False
stop_after_tts(ok) == ~ok

\* How the rest of generate_clip can end once _generate_raw_tts returned ok
\* with `file` at the temporary path.
Outcomes(file, ok) ==
    IF stop_after_tts(ok) THEN {"tts_failed"}
    ELSE IF ~Loadable(file) THEN {"load_failed"}
    ELSE {"effects_failed", "write_failed_at_open", "write_failed_midway", "ok"}

\* Lines 243-258, from the return of _generate_raw_tts to the return of
\* generate_clip, run without an await in between.
AfterTts(c, file, ok) ==
    \E outcome \in Outcomes(file, ok) :
        LET loaded == IF outcome \in {"tts_failed", "load_failed"}
                      THEN <<>> ELSE file.data
            result == CASE outcome = "ok" -> "True"
                        [] outcome \in {"write_failed_at_open", "write_failed_midway"}
                             -> "raised"
                        [] OTHER -> "False"
        IN
        \* temp_path.unlink() on success only; the path goes even while another
        \* coroutine holds the file open (POSIX), whose later writes are lost.
        /\ tempFile' = IF outcome = "ok" THEN Absent ELSE file
        /\ outFiles' =
            CASE outcome = "ok" ->
                    [outFiles EXCEPT ![calls[c].out] = save_optimized(apply_robot_effects(file))]
              [] outcome = "write_failed_midway" ->
                    [outFiles EXCEPT ![calls[c].out] = save_optimized_partial(apply_robot_effects(file))]
              [] OTHER -> outFiles
        /\ calls' =
            [k \in CallIds |->
                IF k = c
                THEN [calls[c] EXCEPT !.pc = "done", !.result = result,
                                      !.loaded = loaded, !.live = FALSE]
                ELSE IF outcome = "ok"
                THEN [calls[k] EXCEPT !.live = FALSE]
                ELSE calls[k]]

\* generate_clip(text, out) up to its first await: Communicate(text, VOICE)
\* raises, or save opens the temporary file.
BeginClip(c, text, out) ==
    /\ calls[c].pc = "idle"
    /\ \/ /\ tempFile' = open_wb(tempFile)
          /\ calls' = [calls EXCEPT ![c] =
                [pc |-> "saving", text |-> text, out |-> out, pos |-> 0,
                 live |-> TRUE, found |-> tempFile.exists, loaded |-> <<>>,
                 result |-> "none"]]
          /\ UNCHANGED outFiles
       \/ LET started == [calls EXCEPT ![c] =
                [IdleCall EXCEPT !.text = text, !.out = out,
                                 !.found = tempFile.exists]]
          IN  /\ calls[c].pc = "idle"
              /\ tempFile' = tempFile
              /\ outFiles' = outFiles
              /\ calls' = [started EXCEPT ![c].pc = "done", ![c].result = "False"]

\* An audio message other than the last arrives and is written.
TtsChunk(c) ==
    /\ calls[c].pc = "saving"
    /\ calls[c].pos < NChunks - 1
    /\ tempFile' = write_chunk(tempFile, calls[c])
    /\ calls' = [calls EXCEPT ![c].pos = @ + 1]
    /\ UNCHANGED outFiles

\* The stream raises: "TTS failed", _generate_raw_tts returns False.
TtsFail(c) ==
    /\ calls[c].pc = "saving"
    /\ AfterTts(c, tempFile, FALSE)

\* The last audio message arrives: save returns, and generate_clip runs on
\* to its return.
FinishClip(c) ==
    /\ calls[c].pc = "saving"
    /\ calls[c].pos = NChunks - 1
    /\ AfterTts(c, write_chunk(tempFile, calls[c]), TRUE)

ClipInit ==
    /\ tempFile \in {Absent, [exists |-> TRUE, data |-> <<StaleChunk>>]}
    /\ outFiles = [p \in Paths |-> NoOutput]
    /\ calls = [c \in CallIds |-> IdleCall]

ClipIdle ==
    /\ tempFile = Absent
    /\ outFiles = [p \in Paths |-> NoOutput]
    /\ calls = [c \in CallIds |-> IdleCall]

(***************************************************************************)
(* main, lines 298-316, generate_all_phrases, 260-286, cleanup, 288-295.   *)
(* One generate_clip at a time, as call 1.                                 *)
(***************************************************************************)
MainIdle ==
    /\ mainPc = "off"
    /\ category = 1
    /\ phraseIdx = 1
    /\ attempts = <<>>
    /\ total_clips = 0

MainInit ==
    /\ mainPc = "start"
    /\ category = 1
    /\ phraseIdx = 1
    /\ attempts = <<>>
    /\ total_clips = 0

\* if len(sys.argv) > 1
MainStart ==
    /\ mainPc = "start"
    /\ mainPc' \in {"all", "single"}
    /\ UNCHANGED <<category, phraseIdx, attempts, total_clips, clipVars, pureVars>>

\* await self.generate_clip(phrase, output_path), line 277, up to its
\* first await.
BatchCall ==
    /\ mainPc = "all"
    /\ category <= Len(PHRASES)
    /\ BeginClip(1, PHRASES[category][phraseIdx], PhrasePath(category, phraseIdx))
    /\ attempts' = Append(attempts, <<category, phraseIdx>>)
    /\ UNCHANGED <<mainPc, category, phraseIdx, total_clips, pureVars>>

\* generate_clip returned or raised: lines 277-279 and the loops' next step.
\* An exception leaves generate_all_phrases and main.
BatchCollect ==
    /\ mainPc = "all"
    /\ calls[1].pc = "done"
    /\ IF calls[1].result = "raised"
       THEN /\ mainPc' = "aborted"
            /\ UNCHANGED <<category, phraseIdx, total_clips, calls>>
       ELSE /\ total_clips' = IF calls[1].result = "True"
                              THEN total_clips + 1 ELSE total_clips
            /\ IF phraseIdx < Len(PHRASES[category])
               THEN phraseIdx' = phraseIdx + 1 /\ category' = category
               ELSE phraseIdx' = 1 /\ category' = category + 1
            /\ calls' = [calls EXCEPT ![1] = IdleCall]
            /\ mainPc' = mainPc
    /\ UNCHANGED <<attempts, tempFile, outFiles, pureVars>>

\* The loops are over: the summary is printed, generate_all_phrases returns.
BatchDone ==
    /\ mainPc = "all"
    /\ category > Len(PHRASES)
    /\ mainPc' = "cleanup"
    /\ UNCHANGED <<category, phraseIdx, attempts, total_clips, clipVars, pureVars>>

\* await generator.generate_clip(text, output_path), line 308.
SingleCall ==
    /\ mainPc = "single"
    /\ BeginClip(1, ArgvText, CustomPath)
    /\ UNCHANGED <<mainVars, pureVars>>

SingleCollect ==
    /\ mainPc = "single"
    /\ calls[1].pc = "done"
    /\ mainPc' = IF calls[1].result = "raised" THEN "aborted" ELSE "cleanup"
    /\ UNCHANGED <<category, phraseIdx, attempts, total_clips, clipVars, pureVars>>

\* generator.cleanup(): every file of the temporary directory is unlinked.
Cleanup ==
    /\ mainPc = "cleanup"
    /\ tempFile' = Absent
    /\ mainPc' = "done"
    /\ UNCHANGED <<category, phraseIdx, attempts, total_clips, outFiles, calls, pureVars>>

\* The steps of the one generate_clip in flight.
ClipChunk ==
    /\ mainPc \in {"all", "single"}
    /\ TtsChunk(1)
    /\ UNCHANGED <<mainVars, pureVars>>

ClipTtsFail ==
    /\ mainPc \in {"all", "single"}
    /\ TtsFail(1)
    /\ UNCHANGED <<mainVars, pureVars>>

ClipFinish ==
    /\ mainPc \in {"all", "single"}
    /\ FinishClip(1)
    /\ UNCHANGED <<mainVars, pureVars>>

(***************************************************************************)
(* Several generate_clip coroutines on one generator and one event loop    *)
(* (asyncio.gather over generate_clip): call k renders text <<"call", k>>  *)
(* to its own output path.                                                 *)
(***************************************************************************)
ConcStart(c) ==
    /\ BeginClip(c, <<"call", c>>, CallPath(c))
    /\ UNCHANGED <<mainVars, pureVars>>

ConcChunk(c) == TtsChunk(c) /\ UNCHANGED <<mainVars, pureVars>>

ConcTtsFail(c) == TtsFail(c) /\ UNCHANGED <<mainVars, pureVars>>

ConcFinish(c) == FinishClip(c) /\ UNCHANGED <<mainVars, pureVars>>

(***************************************************************************)
(* Properties of the encoder (checked under SpecEnc).                      *)
(***************************************************************************)
\* C4: every byte _save_optimized produces lies in 0..255; a sample of 1.0
\* or more gives 255, a sample of -1.0 or less gives 0, and the sample 0.0
\* gives 128 within a tolerance of 1.
C4_QuantizationRange ==
    encPc = "saved" =>
        /\ Len(audio_uint8) = Len(audio)
        /\ \A i \in 1..Len(audio) :
            /\ audio_uint8[i] \in 0..255
            /\ (audio[i] >= SampleScale => audio_uint8[i] = 255)
            /\ (audio[i] <= 0 - SampleScale => audio_uint8[i] = 0)
            /\ (audio[i] = 0 => audio_uint8[i] \in 127..129)

\* Witness of C4: an encoded array holding silence and a sample above 1.0.
C4_Witness ==
    /\ encPc = "saved"
    /\ \E i, j \in 1..Len(audio) :
        /\ audio[i] = 0
        /\ audio[j] > SampleScale
        /\ audio_uint8[j] = 255

\* round(num/den) for num >= 0, den > 0: to the nearest integer, a tie to
\* the even one (numpy's and Python's round).
RoundNearest(num, den) ==
    LET q == num \div den
        r == num % den
    IN  IF 2 * r < den THEN q
        ELSE IF 2 * r > den THEN q + 1
        ELSE IF q % 2 = 0 THEN q ELSE q + 1

Clamp(v, lo, hi) == IF v < lo THEN lo ELSE IF v > hi THEN hi ELSE v

\* C5: the byte of a sample s is round((clamp(s) + 1.0) * 127.5) clamped to
\* 0..255, so that silence (0.0) is encoded as 128.
C5_RoundToNearest ==
    encPc = "saved" =>
        \A i \in 1..Len(audio) :
            audio_uint8[i] =
                Clamp(RoundNearest((Clamp(audio[i], 0 - SampleScale, SampleScale)
                                      + SampleScale) * 255,
                                   2 * SampleScale), 0, 255)

(***************************************************************************)
(* Properties of the inflection step (checked under SpecInfl).             *)
(***************************************************************************)
\* floor(len(y) * inflection_fraction)
TailLength == (len(y) * INFLECTION_DURATION_PCT) \div 100

InflectionApplied == inflPc = "done" /\ add_end_inflection /\ TailLength >= 100

\* C6: when the tail is shorter than 100 samples, or inflection is
\* disabled, _add_inflection returns y itself: same samples, no shift.
C6_TailGuardIdentity ==
    (inflPc = "done" /\ (~add_end_inflection \/ TailLength < 100)) =>
        y_out = <<y>>

\* Witness of C6: inflection enabled, a tail of 10..99 samples, y returned.
C6_Witness ==
    /\ inflPc = "done"
    /\ add_end_inflection
    /\ TailLength \in 10..99
    /\ y_out = <<y>>

\* The mean of the linear 0..INFLECTION_AMOUNT envelope over the samples of
\* piece p of the tail: the envelope's value midway between the first and
\* the last sample of p.
MeanEnvelope(p) ==
    LET tailLo == len(y) - TailLength + 1
    IN  Rat(INFLECTION_AMOUNT * ((p.lo - tailLo) + (p.hi - tailLo)),
            2 * (TailLength - 1))

RECURSIVE TotalLen(_)
TotalLen(w) == IF w = <<>> THEN 0 ELSE len(Head(w)) + TotalLen(Tail(w))

\* C9: when applied, the step keeps the sample count and the head; the 10
\* chunks are non-empty, consecutive, cover the tail exactly once and
\* follow the head in their original order.
C9_TailPartition ==
    InflectionApplied =>
        /\ Len(y_out) = 11
        /\ TotalLen(y_out) = len(y)
        /\ y_out[1] = [lo |-> 1, hi |-> len(y) - TailLength, n_steps |-> Unshifted]
        /\ \A k \in 2..11 :
            /\ len(y_out[k]) > 0
            /\ y_out[k].lo = y_out[k - 1].hi + 1
        /\ y_out[11].hi = len(y)

\* Witness of C9: an applied inflection whose tail is no multiple of 10.
C9_Witness ==
    /\ InflectionApplied
    /\ TailLength % 10 # 0
    /\ Len(y_out) = 11

(***************************************************************************)
(* Properties of generate_clip and the batch (checked under Spec, C1 under *)
(* SpecConc).                                                              *)
(***************************************************************************)
\* C1: concurrent generate_clip calls share no mutable state: a call that
\* returned True wrote a clip made from the speech of its own text alone,
\* and while a call is writing its speech to the temporary file no other
\* call overwrites, truncates or deletes what it has written.
C1_CallsIndependent ==
    \A c \in CallIds :
        /\ calls[c].result = "True" =>
               outFiles[calls[c].out].src = Audio(calls[c].text)
        /\ calls[c].pc = "saving" =>
               /\ tempFile.exists
               /\ Len(tempFile.data) >= calls[c].pos
               /\ \A k \in 1..calls[c].pos : tempFile.data[k] = <<calls[c].text, k>>

Pipeline ==
    <<"synthesize", "time_stretch", "pitch_shift", "add_inflection",
      "resample", "normalize", "encode">>

\* C2: a finished generate_clip either returned True with the fully
\* processed clip at output_path, or reported failure having written
\* nothing to output_path.
C2_AllOrNothing ==
    \A c \in CallIds :
        calls[c].pc = "done" =>
            \/ /\ calls[c].result = "True"
               /\ outFiles[calls[c].out].state = "clip"
               /\ outFiles[calls[c].out].stages = Pipeline
            \/ /\ calls[c].result \in {"False", "raised"}
               /\ outFiles[calls[c].out] = NoOutput

\* C3: in a batch run the phrases are attempted once each in catalog
\* order, and a failure ends only its own phrase: when the run is over,
\* every phrase of the catalog has been attempted.
C3_EveryPhraseAttempted ==
    /\ Len(attempts) <= Len(CatalogOrder)
    /\ attempts = SubSeq(CatalogOrder, 1, Len(attempts))
    /\ (mainPc \in {"cleanup", "done", "aborted"} /\ attempts # <<>>) =>
           attempts = CatalogOrder

\* C7: every clip written went through synthesize, time-stretch, pitch
\* shift, inflection, resample, normalize and encode, once each and in
\* this order, each stage on the output of the one before.
C7_StageOrder ==
    /\ \A p \in Paths :
           outFiles[p].state = "clip" => outFiles[p].stages = Pipeline
    /\ \A c \in CallIds :
           calls[c].result = "True" => outFiles[calls[c].out].state = "clip"

\* Witness of C7: a call returned True and its clip is at its output path.
C7_Witness ==
    \E c \in CallIds :
        /\ calls[c].result = "True"
        /\ outFiles[calls[c].out].state = "clip"
        /\ Len(outFiles[calls[c].out].stages) = 7

\* C10: in a sequential run the audio the effects stage loads is the
\* speech synthesized for the current call's text, and after a call that
\* returned True the temporary file is gone.
C10_TempFileIsCurrent ==
    \A c \in CallIds :
        /\ calls[c].loaded # <<>> => calls[c].loaded = Audio(calls[c].text)
        /\ (calls[c].pc = "done" /\ calls[c].result = "True") => ~tempFile.exists

\* Witness of C10: a later call of the batch found the temporary file left
\* behind, loaded its own speech and returned True.
C10_Witness ==
    /\ Len(attempts) >= 2
    /\ calls[1].found
    /\ calls[1].result = "True"
    /\ calls[1].loaded = Audio(calls[1].text)
    /\ ~tempFile.exists

(***************************************************************************)
(* Specifications.                                                         *)
(***************************************************************************)
InitEnc == EncInit /\ InflIdle /\ ClipIdle /\ MainIdle
NextEnc == SaveOptimized
SpecEnc == InitEnc /\ [][NextEnc]_vars

InitInfl == InflInit /\ EncIdle /\ ClipIdle /\ MainIdle
NextInfl == AddInflection
SpecInfl == InitInfl /\ [][NextInfl]_vars

Init == MainInit /\ ClipInit /\ EncIdle /\ InflIdle
Next ==
    \/ MainStart
    \/ BatchCall
    \/ BatchCollect
    \/ BatchDone
    \/ SingleCall
    \/ SingleCollect
    \/ Cleanup
    \/ ClipChunk
    \/ ClipTtsFail
    \/ ClipFinish
Spec == Init /\ [][Next]_vars

InitConc == ClipInit /\ MainIdle /\ EncIdle /\ InflIdle
NextConc ==
    \E c \in CallIds :
        \/ ConcStart(c)
        \/ ConcChunk(c)
        \/ ConcTtsFail(c)
        \/ ConcFinish(c)
SpecConc == InitConc /\ [][NextConc]_vars

====
